---- MODULE Spec2Model ----
(***************************************************************************)
(* STTListener (src/stt_listener.py): one controller object, the caller    *)
(* threads that invoke its public methods, and the worker threads that run *)
(* listen_speech.  Every read or write of a shared attribute is one step,  *)
(* so that the interleavings CPython allows between a caller and a worker  *)
(* are the interleavings of this model.  MariaDBConnection                 *)
(* (src/mariadb_connector.py) is a second, independent object used by one  *)
(* client thread, one operation at a time.                                 *)
(***************************************************************************)
EXTENDS Naturals, Sequences, FiniteSets

\* ---------------------------------------------------------------- bounds
\* Thread objects the callers may create in one run.
MaxThreads == 2
\* Capture-backend calls (recognizer.listen) answered in one run.
MaxCalls == 2
\* Connections mysql.connector.connect establishes in one run.
MaxConnects == 2

\* ------------------------------------------------------------ value sets
Threads == 1..MaxThreads
\* speech_thread = None
NoThread == 0
\* The caller thread of the single-caller specification, and a second one.
OneCaller == {"main"}
TwoCallers == {"main", "other"}
\* Texts the recognition backend may return, and the text sinks of the run.
Texts == {"T1", "T2"}
Sinks == {"sinkA", "sinkB"}
\* The sink handed to the constructor.
InitSink == "sinkA"
\* Outcomes of recognizer.listen and of recognizer.recognize_google.
CaptureFailures == {"Timeout", "DeviceError"}
CaptureOutcomes == {"Audio"} \cup CaptureFailures
RecognizeOutcomes == Texts \cup {"NotUnderstood", "Unavailable"}
\* How a call of a text sink or of a log sink ends.
SinkOutcomes == {"returns", "raises"}
\* micHolder when a caller thread (init_microphone, test_microphone) is the
\* one inside `with self.microphone`.
ByCaller == MaxThreads + 1
\* The record load_config creates when config.json does not exist
\* (pause_threshold 1.0 is written 1).
DefaultConfig ==
    [device_index |-> 0, energy_threshold |-> 5, pause_threshold |-> 1,
     phrase_time_limit |-> 40, timeout |-> 1]
\* Another configuration, as a caller or an existing config.json may hold:
\* the second input device.
CustomConfig == [DefaultConfig EXCEPT !.device_index = 1]
Configs == {DefaultConfig, CustomConfig}
\* A dict or None, and a file or no file: <<>> or a one-element sequence.
OptConfigs == {<<>>} \cup {<<k>> : k \in Configs}
\* Arguments of set_device_index.
DeviceIndexes == {0, 1}
\* MariaDBConnection.__init__: the default of reconnect_attempts, and the
\* values the constructor is given in this model.
DefaultReconnectAttempts == 3
ReconnectChoices == {0, DefaultReconnectAttempts}
\* The public operations of MariaDBConnection that reach _connect, and the
\* SQL strings they are given.
DbOps == {"execute", "execute_modify", "query_generator", "enter"}
SqlTexts == {"empty", "sql"}

VARIABLES
    is_listening,       \* self.is_listening
    stop_listening,     \* self.stop_listening (Event): TRUE when set
    speech_thread,      \* self.speech_thread: NoThread or a thread
    microphone,         \* self.microphone is not None
    is_wake_mode,       \* self.is_wake_mode
    is_auto_wake_send,  \* self.is_auto_wake_send
    callback,           \* self.callback
    micHolder,          \* thread inside `with self.microphone`, or NoThread
    cpc,                \* each caller's position
    cop,                \* the public operation each caller is in ("none" when idle)
    cbranch,            \* what the operation did: "none", "noop", "nomic", "start", "stop"
    wpc,                \* each worker thread's position
    wtext,              \* worker local `text`
    wsink,              \* the sink a worker is executing ("none" outside it)
    capFail,            \* capture-backend calls that raised, per exception
    recLog,             \* outcomes of the recognition backend, in call order
    sinkLog,            \* texts the text sinks were invoked with, in call order
    config,             \* self.config: <<>> before it is assigned, else <<dict>>
    config_file,        \* config.json: <<>> when the file does not exist
    cfgArg,             \* the constructor's `config` argument: <<>> for None
    initOk,             \* some init_microphone call has run to its end
    connection,         \* MariaDBConnection.connection: "none", "open" (is_connected() True), "closed"
    cursor,             \* MariaDBConnection.cursor: "none" or "cursor"
    reconnect_attempts, \* MariaDBConnection.reconnect_attempts
    dbpc,               \* the client's position in an operation of MariaDBConnection
    dbop,               \* the operation the client is in ("none" when idle)
    attempts,           \* calls of mysql.connector.connect in this operation
    yielded,            \* get_cursor has yielded the cursor in this operation
    ran,                \* cursor.execute(sql) has succeeded in this operation
    dbresult,           \* how the operation ends: "none", "value", or the exception
    connects            \* connections established in this run

ctl == <<is_listening, stop_listening, speech_thread, microphone,
         is_wake_mode, is_auto_wake_send, callback>>
callers == <<cpc, cop, cbranch>>
workers == <<wpc, wtext, wsink, micHolder>>
logs == <<capFail, recLog, sinkLog>>
store == <<config, config_file, cfgArg, initOk>>
db == <<connection, cursor, reconnect_attempts, dbpc, dbop, attempts,
        yielded, ran, dbresult, connects>>
listener == <<ctl, callers, workers, logs, store>>
vars == <<ctl, callers, workers, logs, store, db>>

\* ------------------------------------------------------------------ Init
\* STTListener.__init__ has returned: every flag False, no thread, the Event
\* clear, the constructor's sink registered, the default configuration
\* loaded from config.json; init_microphone has either succeeded or left
\* self.microphone None.
InitListener ==
    /\ is_listening = FALSE
    /\ stop_listening = FALSE
    /\ speech_thread = NoThread
    /\ microphone \in BOOLEAN
    /\ is_wake_mode = FALSE
    /\ is_auto_wake_send = FALSE
    /\ callback = InitSink
    /\ micHolder = NoThread
    /\ cpc = [c \in TwoCallers |-> "idle"]
    /\ cop = [c \in TwoCallers |-> "none"]
    /\ cbranch = [c \in TwoCallers |-> "none"]
    /\ wpc = [t \in Threads |-> "unborn"]
    /\ wtext = [t \in Threads |-> "none"]
    /\ wsink = [t \in Threads |-> "none"]
    /\ capFail = [o \in CaptureFailures |-> 0]
    /\ recLog = <<>>
    /\ sinkLog = <<>>
    /\ config = <<DefaultConfig>>
    /\ config_file = <<DefaultConfig>>
    /\ cfgArg = <<>>
    /\ initOk = microphone

\* MariaDBConnection.__init__ has returned: no connection, no cursor,
\* reconnect_attempts as given.
InitConnection(r) ==
    /\ connection = "none"
    /\ cursor = "none"
    /\ reconnect_attempts = r
    /\ dbpc = "idle"
    /\ dbop = "none"
    /\ attempts = 0
    /\ yielded = FALSE
    /\ ran = FALSE
    /\ dbresult = "none"
    /\ connects = 0

\* Both objects constructed, the connection with its default arguments.
Init == InitListener /\ InitConnection(DefaultReconnectAttempts)

\* STTListener.__init__ at line 31, about to evaluate
\* `config or self.load_config()`, called by "main" with the argument arg
\* while config.json holds file.
InitAtLoad(arg, file) ==
    /\ is_listening = FALSE
    /\ stop_listening = FALSE
    /\ speech_thread = NoThread
    /\ microphone = FALSE
    /\ is_wake_mode = FALSE
    /\ is_auto_wake_send = FALSE
    /\ callback = InitSink
    /\ micHolder = NoThread
    /\ cpc = [c \in TwoCallers |-> IF c \in OneCaller THEN "ct_load" ELSE "idle"]
    /\ cop = [c \in TwoCallers |-> IF c \in OneCaller THEN "construct" ELSE "none"]
    /\ cbranch = [c \in TwoCallers |-> "none"]
    /\ wpc = [t \in Threads |-> "unborn"]
    /\ wtext = [t \in Threads |-> "none"]
    /\ wsink = [t \in Threads |-> "none"]
    /\ capFail = [o \in CaptureFailures |-> 0]
    /\ recLog = <<>>
    /\ sinkLog = <<>>
    /\ config = <<>>
    /\ config_file = file
    /\ cfgArg = arg
    /\ initOk = FALSE
    /\ InitConnection(DefaultReconnectAttempts)

\* Construction with any argument and any state of config.json.
InitConstruct == \E arg \in OptConfigs, file \in OptConfigs : InitAtLoad(arg, file)

\* Construction without a config argument.
InitNoArg == \E file \in OptConfigs : InitAtLoad(<<>>, file)

\* ----------------------------------------------------------- caller side
Goto(c, pc) == cpc' = [cpc EXCEPT ![c] = pc]
Branch(c, b) == cbranch' = [cbranch EXCEPT ![c] = b]

\* The method returns.
Return(c) ==
    /\ cpc[c] = "done"
    /\ Goto(c, "idle")
    /\ cop' = [cop EXCEPT ![c] = "none"]
    /\ Branch(c, "none")
    /\ UNCHANGED <<db, store, ctl, workers, logs>>

\* Faulty variant of StartSpeech: the `if not self.is_listening` guard is
\* missing, so every call goes on to toggle_speech.
StartSpeechUnguarded(c) ==
    /\ cpc[c] = "idle"
    /\ cop' = [cop EXCEPT ![c] = "start"]
    /\ Goto(c, "tg_chk")
    /\ UNCHANGED <<db, store, ctl, cbranch, workers, logs>>

\* start_speech is called: `if not self.is_listening: self.toggle_speech()`
StartSpeech(c) ==
    /\ cpc[c] = "idle"
    /\ cop' = [cop EXCEPT ![c] = "start"]
    /\ IF ~is_listening
         THEN Goto(c, "tg_chk") /\ UNCHANGED cbranch
         ELSE Goto(c, "done") /\ Branch(c, "noop")
    /\ UNCHANGED <<db, store, ctl, workers, logs>>

\* Faulty variant of StopSpeech: the `if self.is_listening` guard is
\* missing, so every call goes on to toggle_speech.
StopSpeechUnguarded(c) ==
    /\ cpc[c] = "idle"
    /\ cop' = [cop EXCEPT ![c] = "stop"]
    /\ Goto(c, "tg_chk")
    /\ UNCHANGED <<db, store, ctl, cbranch, workers, logs>>

\* stop_speech is called: `if self.is_listening: self.toggle_speech()`
StopSpeech(c) ==
    /\ cpc[c] = "idle"
    /\ cop' = [cop EXCEPT ![c] = "stop"]
    /\ IF is_listening
         THEN Goto(c, "tg_chk") /\ UNCHANGED cbranch
         ELSE Goto(c, "done") /\ Branch(c, "noop")
    /\ UNCHANGED <<db, store, ctl, workers, logs>>

\* toggle_speech: `if not self.is_listening:` ... `else:`
ToggleCheck(c) ==
    /\ cpc[c] = "tg_chk"
    /\ IF ~is_listening
         THEN Goto(c, "tg_mic") /\ UNCHANGED cbranch
         ELSE Goto(c, "tg_off") /\ Branch(c, "stop")
    /\ UNCHANGED <<db, store, ctl, cop, workers, logs>>

\* `if not self.microphone:` log the error and return
ToggleMicCheck(c) ==
    /\ cpc[c] = "tg_mic"
    /\ IF microphone
         THEN Goto(c, "tg_set") /\ Branch(c, "start")
         ELSE Goto(c, "done") /\ Branch(c, "nomic")
    /\ UNCHANGED <<db, store, ctl, cop, workers, logs>>

\* `self.is_listening = True`
ToggleSetListening(c) ==
    /\ cpc[c] = "tg_set"
    /\ is_listening' = TRUE
    /\ Goto(c, "tg_clr")
    /\ UNCHANGED <<db, store, stop_listening, speech_thread, microphone, is_wake_mode,
                   is_auto_wake_send, callback, cop, cbranch, workers, logs>>

\* `self.stop_listening.clear()`
ToggleClearFlag(c) ==
    /\ cpc[c] = "tg_clr"
    /\ stop_listening' = FALSE
    /\ Goto(c, "tg_new")
    /\ UNCHANGED <<db, store, is_listening, speech_thread, microphone, is_wake_mode,
                   is_auto_wake_send, callback, cop, cbranch, workers, logs>>

\* The thread the next Thread(...) call creates.
Unborn == {t \in Threads : wpc[t] = "unborn"}
FreshThread == CHOOSE t \in Unborn : \A u \in Unborn : t <= u

\* `self.speech_thread = Thread(target=self.listen_speech, daemon=True)`
ToggleNewThread(c) ==
    /\ cpc[c] = "tg_new"
    /\ Unborn # {}
    /\ speech_thread' = FreshThread
    /\ wpc' = [wpc EXCEPT ![FreshThread] = "created"]
    /\ Goto(c, "tg_start")
    /\ UNCHANGED <<db, store, is_listening, stop_listening, microphone, is_wake_mode,
                   is_auto_wake_send, callback, cop, cbranch, wtext, wsink,
                   micHolder, logs>>

\* `self.speech_thread.start()`: the attribute is read again, so the thread
\* started is the one the handle names now.  When another caller has set
\* the handle to None meanwhile (AttributeError) or has started that thread
\* already (RuntimeError), the call raises out of toggle_speech.
ToggleStartThread(c) ==
    /\ cpc[c] = "tg_start"
    /\ Goto(c, "done")
    /\ IF speech_thread # NoThread /\ wpc[speech_thread] = "created"
          THEN /\ wpc' = [wpc EXCEPT ![speech_thread] = "w_with"]
               /\ UNCHANGED cbranch
          ELSE /\ Branch(c, "raised")
               /\ UNCHANGED wpc
    /\ UNCHANGED <<db, store, ctl, cop, wtext, wsink, micHolder, logs>>

\* else branch: `self.is_listening = False`
ToggleClearListening(c) ==
    /\ cpc[c] = "tg_off"
    /\ is_listening' = FALSE
    /\ Goto(c, "tg_flag")
    /\ UNCHANGED <<db, store, stop_listening, speech_thread, microphone, is_wake_mode,
                   is_auto_wake_send, callback, cop, cbranch, workers, logs>>

\* `self.stop_listening.set()`
ToggleSetFlag(c) ==
    /\ cpc[c] = "tg_flag"
    /\ stop_listening' = TRUE
    /\ Goto(c, "tg_hchk")
    /\ UNCHANGED <<db, store, is_listening, speech_thread, microphone, is_wake_mode,
                   is_auto_wake_send, callback, cop, cbranch, workers, logs>>

\* `if self.speech_thread:`
ToggleHandleCheck(c) ==
    /\ cpc[c] = "tg_hchk"
    /\ Goto(c, IF speech_thread # NoThread THEN "tg_join" ELSE "done")
    /\ UNCHANGED <<db, store, ctl, cop, cbranch, workers, logs>>

\* `self.speech_thread.join(timeout=1.0)`: returns when the thread has ended,
\* or after the timeout, whatever the thread is doing then.  When another
\* caller has set the handle to None meanwhile (AttributeError) or has
\* created the thread and not started it yet (RuntimeError), the call raises
\* out of toggle_speech.
ToggleJoin(c) ==
    /\ cpc[c] = "tg_join"
    /\ IF speech_thread # NoThread /\ wpc[speech_thread] # "created"
          THEN Goto(c, "tg_none") /\ UNCHANGED cbranch
          ELSE Goto(c, "done") /\ Branch(c, "raised")
    /\ UNCHANGED <<db, store, ctl, cop, workers, logs>>

\* `self.speech_thread = None`
ToggleClearHandle(c) ==
    /\ cpc[c] = "tg_none"
    /\ speech_thread' = NoThread
    /\ Goto(c, "done")
    /\ UNCHANGED <<db, store, is_listening, stop_listening, microphone, is_wake_mode,
                   is_auto_wake_send, callback, cop, cbranch, workers, logs>>

\* shutdown is called: `self.stop_listening.set()`
ShutdownSetFlag(c) ==
    /\ cpc[c] = "idle"
    /\ cop' = [cop EXCEPT ![c] = "shutdown"]
    /\ stop_listening' = TRUE
    /\ Goto(c, "sd_off")
    /\ UNCHANGED <<db, store, is_listening, speech_thread, microphone, is_wake_mode,
                   is_auto_wake_send, callback, cbranch, workers, logs>>

\* `self.is_listening = False; self.is_wake_mode = False;
\*  self.is_auto_wake_send = False` (no other thread reads or writes the two
\* wake flags between the three assignments' effects on this model's state)
ShutdownClearFlags(c) ==
    /\ cpc[c] = "sd_off"
    /\ is_listening' = FALSE
    /\ is_wake_mode' = FALSE
    /\ is_auto_wake_send' = FALSE
    /\ Goto(c, "sd_hchk")
    /\ UNCHANGED <<db, store, stop_listening, speech_thread, microphone, callback, cop,
                   cbranch, workers, logs>>

\* `if self.speech_thread:`
ShutdownHandleCheck(c) ==
    /\ cpc[c] = "sd_hchk"
    /\ Goto(c, IF speech_thread # NoThread THEN "sd_join" ELSE "done")
    /\ Branch(c, "stop")
    /\ UNCHANGED <<db, store, ctl, cop, workers, logs>>

\* `self.speech_thread.join(timeout=1.0)`; the handle is kept.
ShutdownJoin(c) ==
    /\ cpc[c] = "sd_join"
    /\ Goto(c, "done")
    /\ UNCHANGED <<db, store, ctl, cop, cbranch, workers, logs>>

\* set_callback: `self.callback = callback`
SetCallback(c, s) ==
    /\ cpc[c] = "idle"
    /\ callback # s
    /\ callback' = s
    /\ UNCHANGED <<db, store, is_listening, stop_listening, speech_thread, microphone,
                   is_wake_mode, is_auto_wake_send, callers, workers, logs>>

\* ------------------------------------------- construction, configuration
\* Faulty variant of FileAfterLoad: the default record is returned and not
\* written to config.json.
FileAfterLoadNotWritten == config_file

\* config.json after load_config: the file as it was, or the default record
\* written by the FileNotFoundError handler.
FileAfterLoad == IF config_file = <<>> THEN <<DefaultConfig>> ELSE config_file

\* What load_config returns: the content of config.json, or the default
\* record when the file does not exist.
LoadedConfig == IF config_file = <<>> THEN <<DefaultConfig>> ELSE config_file

\* `self.config = config or self.load_config()`: load_config runs only when
\* the argument is None; `self.init_microphone()` is the next statement.
LoadConfig(c) ==
    /\ cpc[c] = "ct_load"
    /\ IF cfgArg # <<>>
         THEN config' = cfgArg /\ UNCHANGED config_file
         ELSE config' = LoadedConfig /\ config_file' = FileAfterLoad
    /\ Goto(c, "im_new")
    /\ UNCHANGED <<db, cfgArg, initOk, ctl, cop, cbranch, workers, logs>>

\* init_microphone up to `self.microphone = sr.Microphone(device_index=...)`:
\* a new Microphone object, which no thread is inside, replaces the old
\* one; when list_microphone_names or the constructor raises, the attribute
\* keeps its value and `except Exception` logs "Microphone Error".
InitMicNew(c, ok) ==
    /\ cpc[c] = "im_new"
    /\ IF ok
         THEN /\ microphone' = TRUE
              /\ micHolder' = NoThread
              /\ Goto(c, "im_with")
              /\ UNCHANGED cbranch
         ELSE /\ Goto(c, "done")
              /\ Branch(c, "mic_error")
              /\ UNCHANGED <<microphone, micHolder>>
    /\ UNCHANGED <<db, store, is_listening, stop_listening, speech_thread,
                   is_wake_mode, is_auto_wake_send, callback, cop, wpc, wtext,
                   wsink, logs>>

\* `with self.microphone as source:` in init_microphone: the stream is
\* opened in the calling thread.  When the device cannot be opened, or a
\* worker has entered the new object already, the exception goes to
\* `except Exception`; self.microphone keeps the new object.
InitMicOpen(c, ok) ==
    /\ cpc[c] = "im_with"
    /\ IF ok /\ micHolder = NoThread
         THEN /\ micHolder' = ByCaller
              /\ Goto(c, "im_adjust")
              /\ UNCHANGED cbranch
         ELSE /\ Goto(c, "done")
              /\ Branch(c, "mic_error")
              /\ UNCHANGED micHolder
    /\ UNCHANGED <<db, store, ctl, cop, wpc, wtext, wsink, logs>>

\* adjust_for_ambient_noise(source, duration=3), the thresholds from
\* self.config, the end of the `with` block (the stream is closed) and the
\* log "Microphone initialized successfully."
InitMicDone(c) ==
    /\ cpc[c] = "im_adjust"
    /\ micHolder' = IF micHolder = ByCaller THEN NoThread ELSE micHolder
    /\ initOk' = TRUE
    /\ Goto(c, "done")
    /\ Branch(c, "mic_ok")
    /\ UNCHANGED <<db, config, config_file, cfgArg, ctl, cop, wpc, wtext, wsink,
                   logs>>

\* set_config: `self.config = config`, then init_microphone.
SetConfig(c, k) ==
    /\ cpc[c] = "idle"
    /\ config' = <<k>>
    /\ cop' = [cop EXCEPT ![c] = "set_config"]
    /\ Goto(c, "im_new")
    /\ UNCHANGED <<db, config_file, cfgArg, initOk, ctl, cbranch, workers, logs>>

\* set_device_index: `self.config["device_index"] = index`, then
\* init_microphone.
SetDeviceIndex(c, i) ==
    /\ cpc[c] = "idle"
    /\ config # <<>>
    /\ config' = <<[config[1] EXCEPT !.device_index = i]>>
    /\ cop' = [cop EXCEPT ![c] = "set_device_index"]
    /\ Goto(c, "im_new")
    /\ UNCHANGED <<db, config_file, cfgArg, initOk, ctl, cbranch, workers, logs>>

\* test_microphone is called: `if not self.microphone:` logs and returns
\* False.
TestMicrophone(c) ==
    /\ cpc[c] = "idle"
    /\ cop' = [cop EXCEPT ![c] = "test_microphone"]
    /\ IF microphone
         THEN Goto(c, "tm_with") /\ UNCHANGED cbranch
         ELSE Goto(c, "done") /\ Branch(c, "nomic")
    /\ UNCHANGED <<db, store, ctl, workers, logs>>

\* `with self.microphone as source:` in test_microphone: the stream is
\* opened in the calling thread, unless a thread is inside the object
\* (AssertionError) or the device cannot be opened; `except Exception`
\* logs and False is returned.
TestMicOpen(c, ok) ==
    /\ cpc[c] = "tm_with"
    /\ IF ok /\ micHolder = NoThread
         THEN /\ micHolder' = ByCaller
              /\ Goto(c, "tm_listen")
              /\ UNCHANGED cbranch
         ELSE /\ Goto(c, "done")
              /\ Branch(c, "test_error")
              /\ UNCHANGED micHolder
    /\ UNCHANGED <<db, store, ctl, cop, wpc, wtext, wsink, logs>>

\* adjust_for_ambient_noise and `self.recognizer.listen(source, timeout=5)`
\* in test_microphone, then the end of the `with` block: True when audio
\* was captured, False after WaitTimeoutError or any other exception.
TestMicListen(c, o) ==
    /\ cpc[c] = "tm_listen"
    /\ micHolder' = IF micHolder = ByCaller THEN NoThread ELSE micHolder
    /\ Goto(c, "done")
    /\ Branch(c, IF o = "Audio" THEN "test_ok" ELSE "test_error")
    /\ UNCHANGED <<db, store, ctl, cop, wpc, wtext, wsink, logs>>

\* ----------------------------------------------------------- worker side
\* A worker's position: "unborn" (no Thread object yet), "created" (Thread
\* object made, not started), a place in listen_speech, "x_<reason>" (it is
\* leaving the `with` block for that reason), or "dead".
WGoto(t, pc) == wpc' = [wpc EXCEPT ![t] = pc]
InLoop == {"w_cond1", "w_cond2", "w_listen", "w_recog", "w_cb_test",
           "w_cb_call", "w_in_cb", "w_cb_exc", "w_tlog", "w_post",
           "w_req_set"}
Leaving == {"x_not_listening", "x_flag", "x_fault", "x_crash"}
\* Threads that are running listen_speech.
Live == {t \in Threads : wpc[t] \in {"w_with", "x_mic"} \cup InLoop \cup Leaving}

\* `with self.microphone as source:` __enter__ of the shared Microphone
\* object.  The object admits one context at a time: entering it while
\* another thread is inside raises AssertionError, which listen_speech does
\* not catch, so the thread ends without having held the microphone.
WorkerEnter(t) ==
    /\ wpc[t] = "w_with"
    /\ IF micHolder = NoThread
         THEN micHolder' = t /\ WGoto(t, "w_cond1")
         ELSE UNCHANGED micHolder /\ WGoto(t, "x_mic")
    /\ UNCHANGED <<db, store, ctl, callers, wtext, wsink, logs>>

\* The AssertionError ends the thread.
WorkerCrashAtEnter(t) ==
    /\ wpc[t] = "x_mic"
    /\ WGoto(t, "dead")
    /\ UNCHANGED <<db, store, ctl, callers, wtext, wsink, micHolder, logs>>

\* `while self.is_listening ...`
LoopCheckListening(t) ==
    /\ wpc[t] = "w_cond1"
    /\ WGoto(t, IF is_listening THEN "w_cond2" ELSE "x_not_listening")
    /\ UNCHANGED <<db, store, ctl, callers, wtext, wsink, micHolder, logs>>

\* Faulty variant of LoopCheckFlag: the loop condition does not read the
\* cancellation flag.
LoopCheckFlagIgnored(t) ==
    /\ wpc[t] = "w_cond2"
    /\ WGoto(t, "w_listen")
    /\ UNCHANGED <<db, store, ctl, callers, wtext, wsink, micHolder, logs>>

\* `... and not self.stop_listening.is_set():`; when the loop goes on,
\* `self._log("Listening for speech...")` and the call of recognizer.listen
\* begins.
LoopCheckFlag(t) ==
    /\ wpc[t] = "w_cond2"
    /\ WGoto(t, IF ~stop_listening THEN "w_listen" ELSE "x_flag")
    /\ UNCHANGED <<db, store, ctl, callers, wtext, wsink, micHolder, logs>>

\* Capture-backend calls answered so far: those that raised, and those
\* that returned audio (each is handed to the recognition backend at once).
Captures ==
    capFail["Timeout"] + capFail["DeviceError"] + Len(recLog)
        + Cardinality({t \in Threads : wpc[t] = "w_recog"})

\* Faulty variant of OnTimeout: the timeout ends the loop (`break`).
OnTimeoutBreak == "x_fault"

\* Where listen_speech goes on WaitTimeoutError: `continue`.
OnTimeout == "w_cond1"

\* `audio = self.recognizer.listen(source, timeout=..., phrase_time_limit=...)`
\* returns or raises.  WaitTimeoutError is caught (`continue`); a device
\* error is none of the three exception classes the loop catches, so it
\* leaves listen_speech through the `with`.
CaptureReturn(t, o) ==
    /\ wpc[t] = "w_listen"
    /\ Captures < MaxCalls
    /\ capFail' = IF o \in CaptureFailures
                    THEN [capFail EXCEPT ![o] = @ + 1]
                    ELSE capFail
    /\ WGoto(t, CASE o = "Audio" -> "w_recog"
                  [] o = "Timeout" -> OnTimeout
                  [] o = "DeviceError" -> "x_crash")
    /\ UNCHANGED <<db, store, ctl, callers, wtext, wsink, micHolder, recLog, sinkLog>>

\* Where listen_speech goes on UnknownValueError (after its log line): the
\* flag check that ends the loop body.
OnNotUnderstood == "w_post"
\* Faulty variant of OnUnavailable: RequestError is handled like
\* UnknownValueError (logged, the loop goes on, is_listening is kept).
OnUnavailableIgnored == "w_post"

\* Where listen_speech goes on RequestError (after its log line):
\* `self.is_listening = False`.
OnUnavailable == "w_req_set"

\* `text = self.recognizer.recognize_google(audio)` returns or raises; the
\* two handlers log first.
RecognizeReturn(t, r) ==
    /\ wpc[t] = "w_recog"
    /\ recLog' = Append(recLog, r)
    /\ IF r \in Texts
         THEN WGoto(t, "w_cb_test") /\ wtext' = [wtext EXCEPT ![t] = r]
         ELSE /\ WGoto(t, IF r = "NotUnderstood" THEN OnNotUnderstood
                                                 ELSE OnUnavailable)
              /\ UNCHANGED wtext
    /\ UNCHANGED <<db, store, ctl, callers, wsink, micHolder, capFail, sinkLog>>

\* Faulty variant of AfterCallbackTest: the test is inverted
\* (`if not self.callback:`), so a registered sink is never invoked.
AfterCallbackTestInverted == IF callback \in Sinks THEN "w_post" ELSE "w_cb_call"

\* _on_transcription: `if self.callback:` goes on to the call when a sink is
\* registered (a sink is truthy), and past it otherwise.
AfterCallbackTest == IF callback \in Sinks THEN "w_cb_call" ELSE "w_post"

\* _on_transcription: `if self.callback:`
CallbackTest(t) ==
    /\ wpc[t] = "w_cb_test"
    /\ WGoto(t, AfterCallbackTest)
    /\ UNCHANGED <<db, store, ctl, callers, wtext, wsink, micHolder, logs>>

\* Faulty variant of SinkCalled: the worker uses the sink that was
\* registered when the listener was constructed.
SinkCaptured == InitSink

\* The sink that `self.callback(text)` invokes: the attribute as read now.
SinkCalled == callback

\* _on_transcription: `self.callback(text)` invokes the sink.
CallbackCall(t) ==
    /\ wpc[t] = "w_cb_call"
    /\ sinkLog' = Append(sinkLog, wtext[t])
    /\ wsink' = [wsink EXCEPT ![t] = SinkCalled]
    /\ WGoto(t, "w_in_cb")
    /\ UNCHANGED <<db, store, ctl, callers, wtext, micHolder, capFail, recLog>>

\* Faulty variant of AfterSinkRaises: _on_transcription has no
\* try/except, so the sink's exception leaves listen_speech.
AfterSinkRaisesUncaught == "x_crash"

\* Where the worker goes when the text sink raises: the handler
\* `except Exception as e:` of _on_transcription.
AfterSinkRaises == "w_cb_exc"

\* The text sink returns, or raises inside the try block of
\* _on_transcription.
CallbackReturn(t, o) ==
    /\ wpc[t] = "w_in_cb"
    /\ wsink' = [wsink EXCEPT ![t] = "none"]
    /\ WGoto(t, IF o = "raises" THEN AfterSinkRaises ELSE "w_tlog")
    /\ UNCHANGED <<db, store, ctl, callers, wtext, micHolder, logs>>

\* `logging.exception(f"Error in transcription callback: {e}")`;
\* _on_transcription returns normally.
CallbackErrorLogged(t) ==
    /\ wpc[t] = "w_cb_exc"
    /\ WGoto(t, "w_tlog")
    /\ UNCHANGED <<db, store, ctl, callers, wtext, wsink, micHolder, logs>>

\* Where the worker goes when the log sink raises: _log catches the
\* exception (`except Exception`), and the statement after the _log call.
AfterLogRaises == "w_post"

\* `self._log(f"Transcribed: {text}")`: the log sink returns or raises;
\* `text` is not used afterwards.
LogTranscribed(t, o) ==
    /\ wpc[t] = "w_tlog"
    /\ wtext' = [wtext EXCEPT ![t] = "none"]
    /\ WGoto(t, IF o = "raises" THEN AfterLogRaises ELSE "w_post")
    /\ UNCHANGED <<db, store, ctl, callers, wsink, micHolder, logs>>

\* `if self.stop_listening.is_set(): break`
PostCheckFlag(t) ==
    /\ wpc[t] = "w_post"
    /\ WGoto(t, IF stop_listening THEN "x_flag" ELSE "w_cond1")
    /\ UNCHANGED <<db, store, ctl, callers, wtext, wsink, micHolder, logs>>

\* Where the RequestError handler goes after `self.is_listening = False`
\* and its second log line: `break`.
AfterFault == "x_fault"

\* except sr.RequestError: `self.is_listening = False`, log, `break`
FaultClearListening(t) ==
    /\ wpc[t] = "w_req_set"
    /\ is_listening' = FALSE
    /\ WGoto(t, AfterFault)
    /\ UNCHANGED <<db, store, stop_listening, speech_thread, microphone, is_wake_mode,
                   is_auto_wake_send, callback, callers, wtext, wsink,
                   micHolder, logs>>

\* The `with` block is left: Microphone.__exit__ closes the stream and the
\* thread ends.
WorkerExit(t) ==
    /\ wpc[t] \in Leaving
    /\ WGoto(t, "dead")
    /\ micHolder' = IF micHolder = t THEN NoThread ELSE micHolder
    /\ UNCHANGED <<db, store, ctl, callers, wtext, wsink, logs>>

\* ------------------------------------------------------ MariaDBConnection
\* The client's position: "idle", in _connect ("c_check", "c_close",
\* "c_connect", and "c_true" / "c_false" for its return value), in the body
\* of `with self.get_cursor() as cursor` ("sql_run"), or "done".
DbGoto(pc) == dbpc' = pc

\* execute, execute_modify, query_generator or __enter__ is called.  execute
\* and execute_modify raise ValueError on an empty statement before
\* get_cursor; the others call _connect at once (get_cursor line 99,
\* __enter__ line 199).
DbCall(op, sql) ==
    /\ dbpc = "idle"
    /\ dbop' = op
    /\ IF op \in {"execute", "execute_modify"} /\ sql = "empty"
         THEN DbGoto("done") /\ dbresult' = "ValueError"
         ELSE DbGoto("c_check") /\ UNCHANGED dbresult
    /\ UNCHANGED <<listener, connection, cursor, reconnect_attempts, attempts,
                   yielded, ran, connects>>

\* `if self.connection and self.connection.is_connected(): return True`,
\* else `if self.connection:`.
ConnectCheck ==
    /\ dbpc = "c_check"
    /\ DbGoto(CASE connection = "open" -> "c_true"
                [] connection = "closed" -> "c_close"
                [] OTHER -> "c_connect")
    /\ UNCHANGED <<listener, connection, cursor, reconnect_attempts, dbop,
                   attempts, yielded, ran, dbresult, connects>>

\* `self.connection.close()` on the connection that is no longer connected.
ConnectCloseStale ==
    /\ dbpc = "c_close"
    /\ DbGoto("c_connect")
    /\ UNCHANGED <<listener, connection, cursor, reconnect_attempts, dbop,
                   attempts, yielded, ran, dbresult, connects>>

\* Faulty variant of AfterFailedAttempt: the retry loop of version 0.0.1
\* (the commented-out lines 73-93), which tries again while
\* `attempt < self.reconnect_attempts`.
AfterFailedAttemptRetry ==
    IF attempts < reconnect_attempts THEN "c_check" ELSE "c_false"

\* `except Error as err:` logs and `return False`.
AfterFailedAttempt == "c_false"

\* `self.connection = mysql.connector.connect(**self.config)` and
\* `self.cursor = self.connection.cursor()`, then `return True`; when
\* connect raises Error the attributes keep their values.
ConnectAttempt(ok) ==
    /\ dbpc = "c_connect"
    /\ ok => connects < MaxConnects
    /\ attempts' = attempts + 1
    /\ IF ok
         THEN /\ connection' = "open"
              /\ cursor' = "cursor"
              /\ connects' = connects + 1
              /\ DbGoto("c_true")
         ELSE /\ DbGoto(AfterFailedAttempt)
              /\ UNCHANGED <<connection, cursor, connects>>
    /\ UNCHANGED <<listener, reconnect_attempts, dbop, yielded, ran, dbresult>>

\* _connect has returned True: get_cursor yields self.cursor and the body
\* of the `with` begins; __enter__ returns self.
ConnectReturnedTrue ==
    /\ dbpc = "c_true"
    /\ IF dbop = "enter"
         THEN DbGoto("done") /\ dbresult' = "value" /\ UNCHANGED yielded
         ELSE DbGoto("sql_run") /\ yielded' = TRUE /\ UNCHANGED dbresult
    /\ UNCHANGED <<listener, connection, cursor, reconnect_attempts, dbop,
                   attempts, ran, connects>>

\* _connect has returned False: get_cursor raises
\* ConnectionError("Failed to connect to MariaDB"); __enter__ ignores the
\* result and returns self.
ConnectReturnedFalse ==
    /\ dbpc = "c_false"
    /\ DbGoto("done")
    /\ dbresult' = IF dbop = "enter" THEN "value" ELSE "ConnectionError"
    /\ UNCHANGED <<listener, connection, cursor, reconnect_attempts, dbop,
                   attempts, yielded, ran, connects>>

\* `cursor.execute(sql)` and the rest of the `with` body: it succeeds on a
\* connected connection, or raises Error, which get_cursor logs, rolls
\* back and re-raises.
SqlRun(ok) ==
    /\ dbpc = "sql_run"
    /\ ok => connection = "open"
    /\ ran' = ok
    /\ dbresult' = IF ok THEN "value" ELSE "Error"
    /\ DbGoto("done")
    /\ UNCHANGED <<listener, connection, cursor, reconnect_attempts, dbop,
                   attempts, yielded, connects>>

\* The operation returns or raises to the client.
DbReturn ==
    /\ dbpc = "done"
    /\ DbGoto("idle")
    /\ dbop' = "none"
    /\ attempts' = 0
    /\ yielded' = FALSE
    /\ ran' = FALSE
    /\ dbresult' = "none"
    /\ UNCHANGED <<listener, connection, cursor, reconnect_attempts, connects>>

\* close (also called by __exit__): a connected connection is closed; the
\* attribute keeps the closed object.
DbClose ==
    /\ dbpc = "idle"
    /\ connection = "open"
    /\ connection' = "closed"
    /\ UNCHANGED <<listener, cursor, reconnect_attempts, dbpc, dbop, attempts,
                   yielded, ran, dbresult, connects>>

\* The server or the network drops the connection: is_connected() answers
\* False from now on.
ConnectionLost ==
    /\ connection = "open"
    /\ connection' = "closed"
    /\ UNCHANGED <<listener, cursor, reconnect_attempts, dbpc, dbop, attempts,
                   yielded, ran, dbresult, connects>>

\* ------------------------------------------------------------------ Next
\* A step of a caller inside start_speech or stop_speech.
StartStopStep(c) ==
    \/ StartSpeech(c)
    \/ StopSpeech(c)
    \/ Return(c)
    \/ ToggleCheck(c)
    \/ ToggleMicCheck(c)
    \/ ToggleSetListening(c)
    \/ ToggleClearFlag(c)
    \/ ToggleNewThread(c)
    \/ ToggleStartThread(c)
    \/ ToggleClearListening(c)
    \/ ToggleSetFlag(c)
    \/ ToggleHandleCheck(c)
    \/ ToggleJoin(c)
    \/ ToggleClearHandle(c)

\* A step of a caller: start_speech, stop_speech, shutdown, set_callback.
CallerStep(c) ==
    \/ StartStopStep(c)
    \/ ShutdownSetFlag(c)
    \/ ShutdownClearFlags(c)
    \/ ShutdownHandleCheck(c)
    \/ ShutdownJoin(c)
    \/ \E s \in Sinks : SetCallback(c, s)

WorkerStep(t) ==
    \/ WorkerEnter(t)
    \/ WorkerCrashAtEnter(t)
    \/ LoopCheckListening(t)
    \/ LoopCheckFlag(t)
    \/ \E o \in CaptureOutcomes : CaptureReturn(t, o)
    \/ \E r \in RecognizeOutcomes : RecognizeReturn(t, r)
    \/ CallbackTest(t)
    \/ CallbackCall(t)
    \/ \E o \in SinkOutcomes : CallbackReturn(t, o)
    \/ CallbackErrorLogged(t)
    \/ \E o \in SinkOutcomes : LogTranscribed(t, o)
    \/ PostCheckFlag(t)
    \/ FaultClearListening(t)
    \/ WorkerExit(t)

Next ==
    \/ \E c \in OneCaller : CallerStep(c)
    \/ \E t \in Threads : WorkerStep(t)

\* One caller thread using every modelled method, and the workers it starts.
Spec == Init /\ [][Next]_vars

\* One caller thread that only calls start_speech and stop_speech.
NextStartStop ==
    \/ \E c \in OneCaller : StartStopStep(c)
    \/ \E t \in Threads : WorkerStep(t)

SpecStartStop == Init /\ [][NextStartStop]_vars

\* A step of a caller inside start_speech, which may run either branch of
\* toggle_speech.
StartStep(c) ==
    \/ StartSpeech(c)
    \/ Return(c)
    \/ ToggleCheck(c)
    \/ ToggleMicCheck(c)
    \/ ToggleSetListening(c)
    \/ ToggleClearFlag(c)
    \/ ToggleNewThread(c)
    \/ ToggleStartThread(c)
    \/ ToggleClearListening(c)
    \/ ToggleSetFlag(c)
    \/ ToggleHandleCheck(c)
    \/ ToggleJoin(c)
    \/ ToggleClearHandle(c)

\* Two caller threads that only call start_speech, at any time.
NextTwoCallers ==
    \/ \E c \in TwoCallers : StartStep(c)
    \/ \E t \in Threads : WorkerStep(t)

SpecTwoCallers == Init /\ [][NextTwoCallers]_vars

\* A step of the constructor from line 31 on, or of init_microphone.
ConstructStep(c) ==
    \/ LoadConfig(c)
    \/ \E ok \in BOOLEAN : InitMicNew(c, ok)
    \/ \E ok \in BOOLEAN : InitMicOpen(c, ok)
    \/ InitMicDone(c)

\* A step of set_config, set_device_index or test_microphone.
ConfigStep(c) ==
    \/ \E k \in Configs : SetConfig(c, k)
    \/ \E i \in DeviceIndexes : SetDeviceIndex(c, i)
    \/ TestMicrophone(c)
    \/ \E ok \in BOOLEAN : TestMicOpen(c, ok)
    \/ \E o \in CaptureOutcomes : TestMicListen(c, o)

\* A step of a caller inside start_speech when no other caller runs: the
\* start branch of toggle_speech.
StartBranchStep(c) ==
    \/ StartSpeech(c)
    \/ Return(c)
    \/ ToggleCheck(c)
    \/ ToggleMicCheck(c)
    \/ ToggleSetListening(c)
    \/ ToggleClearFlag(c)
    \/ ToggleNewThread(c)
    \/ ToggleStartThread(c)

\* One caller thread that constructs the listener and then calls
\* start_speech, and the workers it starts.
NextConstruct ==
    \/ \E c \in OneCaller : ConstructStep(c) \/ StartBranchStep(c)
    \/ \E t \in Threads : WorkerStep(t)

SpecConstruct == InitConstruct /\ [][NextConstruct]_vars

\* One caller thread that constructs the listener without a config
\* argument and then calls start_speech, stop_speech, set_config,
\* set_device_index and test_microphone, and the workers it starts.
NextConfig ==
    \/ \E c \in OneCaller : ConstructStep(c) \/ StartStopStep(c) \/ ConfigStep(c)
    \/ \E t \in Threads : WorkerStep(t)

SpecConfig == InitNoArg /\ [][NextConfig]_vars

\* One client of a MariaDBConnection constructed with any of the
\* reconnect_attempts values, and the server it talks to.
InitDb == InitListener /\ \E r \in ReconnectChoices : InitConnection(r)

NextDb ==
    \/ \E op \in DbOps, sql \in SqlTexts : DbCall(op, sql)
    \/ ConnectCheck
    \/ ConnectCloseStale
    \/ \E ok \in BOOLEAN : ConnectAttempt(ok)
    \/ ConnectReturnedTrue
    \/ ConnectReturnedFalse
    \/ \E ok \in BOOLEAN : SqlRun(ok)
    \/ DbReturn
    \/ DbClose
    \/ ConnectionLost

SpecDb == InitDb /\ [][NextDb]_vars

\* ================================================================ claims
\* Texts among the recognition results, in the order they were returned.
IsText(r) == r \in Texts
Successes == SelectSeq(recLog, IsText)
\* Only the first Thread object has been created so far, and no caller is
\* inside a method: the first session, with no restart under way.
FirstSessionOnly ==
    /\ wpc[1] # "unborn"
    /\ \A t \in Threads : t # 1 => wpc[t] = "unborn"
    /\ \A c \in OneCaller : cpc[c] = "idle"

\* C1: for every sequence of start_speech/stop_speech calls, at most one
\* thread running listen_speech is alive at any time.  (Stated as written;
\* the code violates it: start_speech after a stop_speech whose join timed
\* out, or while a worker is still leaving after a fault.)
C1_AtMostOneWorker == Cardinality(Live) <= 1

\* C2: a start_speech call that finds is_listening True returns at once: no
\* thread is created or started, and is_listening, the stop_listening flag
\* and speech_thread are unchanged.
C2_StartWhileRunningIsNoOp ==
    [][\A c \in OneCaller :
          (cpc[c] = "idle" /\ cop'[c] = "start" /\ is_listening)
              => /\ cpc'[c] = "done"
                 /\ cbranch'[c] = "noop"
                 /\ UNCHANGED <<is_listening, stop_listening, speech_thread, wpc>>]_vars
\* A start_speech call has just returned as a no-op on a running controller.
C2_Witness ==
    \E c \in OneCaller :
        /\ cpc[c] = "done" /\ cop[c] = "start" /\ cbranch[c] = "noop"
        /\ is_listening
        /\ \E t \in Threads : wpc[t] = "w_listen"

\* C3: a stop_speech call that finds is_listening False returns at once: it
\* joins nothing, does not set the stop_listening flag, and leaves
\* is_listening and speech_thread unchanged.
C3_StopWhileIdleIsNoOp ==
    [][\A c \in OneCaller :
          (cpc[c] = "idle" /\ cop'[c] = "stop" /\ ~is_listening)
              => /\ cpc'[c] = "done"
                 /\ cbranch'[c] = "noop"
                 /\ UNCHANGED <<is_listening, stop_listening, speech_thread, wpc>>]_vars
\* A stop_speech call has just returned as a no-op on an idle controller whose
\* flag is clear (a worker ended the session by a fault).
C3_Witness ==
    \E c \in OneCaller :
        /\ cpc[c] = "done" /\ cop[c] = "stop" /\ cbranch[c] = "noop"
        /\ ~is_listening /\ ~stop_listening
        /\ speech_thread # NoThread

\* C4: a stop_speech call that found the controller running has, when it
\* returns, set the flag, left is_listening False and spawned no worker,
\* under every interleaving with the worker.  (Stated as written; the code
\* violates it when the worker clears is_listening on a RequestError
\* between stop_speech's test and toggle_speech's test.)
C4_StopLeavesIdle ==
    \A c \in OneCaller :
        (cpc[c] = "done" /\ cop[c] = "stop" /\ cbranch[c] # "noop")
            => /\ cbranch[c] = "stop"
               /\ ~is_listening
               /\ stop_listening

\* C5: while every capture call so far has raised WaitTimeoutError, no text
\* sink has been invoked, no worker is anywhere past the capture call (so
\* none has written is_listening), and a worker that has left its loop left
\* it at one of the two cancellation tests.
OnlyTimeouts ==
    /\ capFail["DeviceError"] = 0
    /\ recLog = <<>>
    /\ \A t \in Threads : wpc[t] # "w_recog"
C5_TimeoutIsNotFatal ==
    OnlyTimeouts =>
        /\ sinkLog = <<>>
        /\ \A t \in Threads :
              wpc[t] \in {"unborn", "created", "w_with", "x_mic", "w_cond1",
                          "w_cond2", "w_listen", "x_not_listening", "x_flag",
                          "dead"}
        /\ (FirstSessionOnly /\ is_listening) => wpc[1] \in InLoop \cup {"w_with"}
\* Two capture calls have timed out and the worker is in its third.
C5_Witness ==
    /\ OnlyTimeouts
    /\ capFail["Timeout"] >= 2
    /\ \E t \in Threads : wpc[t] = "w_listen"

\* C6: with a recognition backend that answers NotUnderstood and then
\* Unavailable, the text sink is never invoked; after the first answer the
\* worker of an unstopped session is still in its loop; after the second
\* the worker has left the loop body for good and, once it has cleared
\* is_listening, the controller is idle.
C6_NotUnderstoodThenUnavailable ==
    /\ (recLog \in {<<"NotUnderstood">>, <<"NotUnderstood", "Unavailable">>})
           => sinkLog = <<>>
    /\ (recLog = <<"NotUnderstood">> /\ FirstSessionOnly /\ is_listening
            /\ capFail["DeviceError"] = 0)
           => wpc[1] \in InLoop \ {"w_req_set"}
    /\ (recLog = <<"NotUnderstood", "Unavailable">>
            /\ \A t \in Threads : t # 1 => wpc[t] = "unborn")
           => wpc[1] \in {"w_req_set", "x_fault", "dead"}
    /\ (recLog = <<"NotUnderstood", "Unavailable">> /\ FirstSessionOnly
            /\ wpc[1] \in {"x_fault", "dead"})
           => ~is_listening
\* The worker has ended after NotUnderstood then Unavailable.
C6_Witness ==
    /\ recLog = <<"NotUnderstood", "Unavailable">>
    /\ FirstSessionOnly
    /\ wpc[1] = "dead"
    /\ ~is_listening /\ ~stop_listening

\* C7: the texts handed to the text sink are the successful recognition
\* results, in the same order, with none dropped, repeated or reordered:
\* the sink log is the list of results so far, less the one result a worker
\* is about to deliver.
Pending == {t \in Threads : wpc[t] \in {"w_cb_test", "w_cb_call"}}
C7_SinkGetsResultsInOrder ==
    /\ Len(sinkLog) + Cardinality(Pending) = Len(Successes)
    /\ sinkLog = SubSeq(Successes, 1, Len(sinkLog))
    /\ \A t \in Pending : wtext[t] = Successes[Len(Successes)]
\* T1 then T2 were recognized and delivered.
C7_Witness ==
    /\ recLog = <<"T1", "T2">>
    /\ sinkLog = <<"T1", "T2">>

C9_RestartAfterFaultRuns ==
    \A c \in OneCaller :
        (/\ cpc[c] = "done" /\ cop[c] = "start" /\ cbranch[c] = "start"
         /\ speech_thread # NoThread
         /\ \E u \in Threads : wpc[u] = "x_fault")
            => wpc[speech_thread] # "x_mic"

\* C10: shutdown leaves the state stop_speech leaves, with the wake flags
\* cleared: is_listening False, the flag set, is_wake_mode and
\* is_auto_wake_send False, and speech_thread None.  (Stated as written;
\* the code violates it: shutdown never clears speech_thread.)
C10_ShutdownLikeStop ==
    \A c \in OneCaller :
        (cpc[c] = "done" /\ cop[c] = "shutdown")
            => /\ ~is_listening
               /\ stop_listening
               /\ ~is_wake_mode
               /\ ~is_auto_wake_send
               /\ speech_thread = NoThread

\* C11: with two caller threads that only call start_speech, and as long as
\* no session has been ended by a backend failure, one worker at most has
\* been created and no start_speech call has run toggle_speech's stop
\* branch.  (Stated as written; the code violates it: the test of
\* is_listening and its assignment are separate unlocked steps.)
C11_ConcurrentStartsSpawnOneWorker ==
    (/\ \A i \in 1..Len(recLog) : recLog[i] # "Unavailable"
     /\ capFail["DeviceError"] = 0)
        => /\ Cardinality({t \in Threads : wpc[t] # "unborn"}) <= 1
           /\ \A c \in TwoCallers : cop[c] = "start" => cbranch[c] # "stop"

\* C12: every failure of the capture or recognition backend is caught inside
\* listen_speech; no worker is ended by an exception that escapes the loop.
\* (Stated as written; the code violates it: listen_speech handles
\* WaitTimeoutError, UnknownValueError and RequestError only, so a device
\* error raised by recognizer.listen ends the thread.)
C12_NoFailureEscapes == \A t \in Threads : wpc[t] # "x_crash"

\* C13: between operations the controller is Idle or Running, and never has
\* is_listening True with no live worker.  (Stated as written; the code
\* violates it: a worker ended by an escaping exception leaves is_listening
\* True.)
C13_RunningHasLiveWorker ==
    ((\A c \in OneCaller : cpc[c] = "idle") /\ is_listening)
        => \E t \in Threads : wpc[t] \in {"w_with"} \cup InLoop \cup Leaving

\* C14: when the cancellation flag is set while the capture call is in
\* progress, the worker does not call the recognition backend when the
\* capture returns.  (Stated as written; the code violates it: line 169
\* follows line 168 with no test of the flag.)
C14_NoRecognitionAfterCancelledCapture ==
    [][\A t \in Threads :
          (wpc[t] = "w_listen" /\ stop_listening /\ wpc'[t] # "w_listen")
              => wpc'[t] # "w_recog"]_vars

\* Steps a worker at position pc can still take before its thread ends,
\* at most, while the cancellation flag stays set.
WorkerRank(pc) ==
    CASE pc = "dead" -> 0
      [] pc \in Leaving \cup {"x_mic"} -> 1
      [] pc \in {"w_cond2", "w_post", "w_req_set"} -> 2
      [] pc \in {"w_cond1", "w_tlog"} -> 3
      [] pc = "w_cb_exc" -> 4
      [] pc = "w_in_cb" -> 5
      [] pc = "w_cb_call" -> 6
      [] pc = "w_cb_test" -> 7
      [] pc = "w_recog" -> 8
      [] pc = "w_listen" -> 9
      [] OTHER -> 10

\* C15: while the cancellation flag is set and stays set, every step of a
\* live worker brings it strictly nearer to the end of its thread: it
\* finishes the iteration it is in, begins no capture call, and ends after
\* at most WorkerRank steps.
C15_CancellationWithinOneIteration ==
    [][\A t \in Threads :
          (stop_listening /\ stop_listening' /\ t \in Live
           /\ wpc'[t] # wpc[t])
              => /\ WorkerRank(wpc'[t]) < WorkerRank(wpc[t])
                 /\ wpc'[t] # "w_listen"]_vars

\* The flag was set during a session in which a capture had been answered,
\* and the worker has left the loop on reading the flag.
C15_Witness ==
    /\ stop_listening
    /\ Len(recLog) >= 1
    /\ \E t \in Threads : wpc[t] = "x_flag"

\* C18: whenever is_listening is False and no operation is in progress,
\* speech_thread is None.  (Stated as written; the code violates it: only
\* toggle_speech's stop branch clears the handle, so it stays set after a
\* RequestError fault and after shutdown.)
C18_HandleOnlyWhileRunning ==
    ((\A c \in OneCaller : cpc[c] = "idle") /\ ~is_listening)
        => speech_thread = NoThread

\* C20: a text sink or log sink that raises does not end the session: the
\* exception is caught, is_listening and the cancellation flag keep their
\* values, the "Transcribed" log call for the same text follows, and the
\* worker then tests the flag and, if it is clear, returns to the loop
\* condition.
C20_RaisingSinkDoesNotEndSession ==
    [][\A t \in Threads :
          /\ (wpc[t] = "w_in_cb" /\ wpc'[t] # "w_in_cb")
                => /\ wpc'[t] \in {"w_cb_exc", "w_tlog"}
                   /\ wtext'[t] = wtext[t]
                   /\ UNCHANGED <<is_listening, stop_listening>>
          /\ (wpc[t] = "w_cb_exc" /\ wpc'[t] # "w_cb_exc")
                => /\ wpc'[t] = "w_tlog"
                   /\ wtext'[t] = wtext[t]
                   /\ UNCHANGED <<is_listening, stop_listening>>
          /\ (wpc[t] = "w_tlog" /\ wpc'[t] # "w_tlog")
                => /\ wpc'[t] = "w_post"
                   /\ UNCHANGED <<is_listening, stop_listening>>
          /\ (wpc[t] = "w_post" /\ wpc'[t] # "w_post" /\ ~stop_listening)
                => wpc'[t] = "w_cond1"]_vars

\* The text sink has raised during a running session and the handler of
\* _on_transcription has the exception.
C20_Witness ==
    /\ is_listening
    /\ ~stop_listening
    /\ \E t \in Threads : wpc[t] = "w_cb_exc" /\ wtext[t] \in Texts

\* C16: as long as no init_microphone call has succeeded, start_speech has
\* no effect: is_listening is False and no worker thread has been created.
\* (Stated as written; the code violates it: line 64 assigns
\* self.microphone before line 65 opens the device, so a failure in the
\* `with` block leaves a microphone that passes toggle_speech's test.)
C16_NoStartBeforeSuccessfulInit ==
    ~initOk => (~is_listening /\ \A t \in Threads : wpc[t] = "unborn")

\* C17: the constructor called without a config loads the configuration
\* before init_microphone and before any worker exists; when config.json is
\* absent the record device_index 0, energy_threshold 5, pause_threshold 1,
\* phrase_time_limit 40, timeout 1 becomes both self.config and the content
\* of the file; when the file exists its content becomes self.config and
\* the file is left as it was.
C17_LoadConfigDefaults ==
    [][\A c \in OneCaller :
          (cpc[c] = "ct_load" /\ cpc'[c] # "ct_load" /\ cfgArg = <<>>)
              => /\ cpc'[c] = "im_new"
                 /\ ~microphone'
                 /\ \A t \in Threads : wpc'[t] = "unborn"
                 /\ config_file = <<>>
                       => /\ config' = <<[device_index |-> 0,
                                          energy_threshold |-> 5,
                                          pause_threshold |-> 1,
                                          phrase_time_limit |-> 40,
                                          timeout |-> 1]>>
                          /\ config_file' = config'
                 /\ config_file # <<>>
                       => /\ config' = config_file
                          /\ config_file' = config_file]_vars

\* Constructed without a config: the default record is loaded and in the
\* file, and init_microphone is about to begin.
C17_Witness ==
    /\ cfgArg = <<>>
    /\ config = <<DefaultConfig>>
    /\ config_file = <<DefaultConfig>>
    /\ \E c \in OneCaller : cpc[c] = "im_new" /\ cop[c] = "construct"

\* C19: no caller thread has a microphone stream open (inside the `with`
\* block of init_microphone or test_microphone) while a worker is inside
\* its own.  (Stated as written; the code violates it: set_config and
\* set_device_index open a new Microphone object whatever the worker does.)
C19_WorkerAloneHoldsMicrophone ==
    ~ \E t \in Threads, c \in OneCaller :
          /\ wpc[t] \in InLoop \cup Leaving
          /\ cpc[c] \in {"im_adjust", "tm_listen"}

====
